---- MODULE Spec2Model ----
(***************************************************************************)
(* A model of converter.py: the ABC notation compiler abc_to_piano_roll    *)
(* and the functions it calls (parse_abc_chord, parse_abc_note,            *)
(* get_midi_pitch, parse_meta_key, parse_tempo).                           *)
(*                                                                         *)
(* Text is a sequence of one-character strings.  A number is a record      *)
(* [num, den, flt]: the value num/den in lowest terms, and flt = TRUE when *)
(* the Python object is a float (the result of a float operation, rounded  *)
(* to the float format) and FALSE when it is an int or a Fraction (exact). *)
(* An exception is modelled by a field "raised" holding the exception's    *)
(* type name ("" when the call returned).                                  *)
(***************************************************************************)
EXTENDS Integers, Sequences, FiniteSets, TLC

\* ------------------------------------------------------------------ bounds

\* Lines read by one compilation.
MaxLines == 3

\* Significand bits of the modelled float format (53 in CPython's double).
MantBits == 8

\* ------------------------------------------------------------- characters

Upper ==
  {"A","B","C","D","E","F","G","H","I","J","K","L","M",
   "N","O","P","Q","R","S","T","U","V","W","X","Y","Z"}

DigitChars == <<"0","1","2","3","4","5","6","7","8","9">>

IsDigit(c) == \E i \in 1..10 : DigitChars[i] = c

DigitVal(c) == (CHOOSE i \in 1..10 : DigitChars[i] = c) - 1

\* str.strip() removes these (the whitespace of the inputs considered).
Whitespace == {" ", "\t"}

\* The value of a group that did not take part in a match.
None == <<"None">>

\* ------------------------------------------------------------------- text

Drop(s, n) == SubSeq(s, n + 1, Len(s))

Take(s, n) == SubSeq(s, 1, n)

\* The length of the longest prefix of s made of characters of set cs.
RECURSIVE RunLen(_, _)
RunLen(s, cs) ==
  IF s # <<>> /\ Head(s) \in cs THEN 1 + RunLen(Tail(s), cs) ELSE 0

DigitSet == {DigitChars[i] : i \in 1..10}

RECURSIVE LStrip(_)
LStrip(s) == IF s # <<>> /\ Head(s) \in Whitespace THEN LStrip(Tail(s)) ELSE s

RECURSIVE RStrip(_)
RStrip(s) ==
  IF s # <<>> /\ s[Len(s)] \in Whitespace THEN RStrip(Take(s, Len(s) - 1)) ELSE s

Strip(s) == RStrip(LStrip(s))

\* int(s) for a non-empty run of digits.
RECURSIVE ParseInt(_)
ParseInt(s) ==
  IF Len(s) = 1 THEN DigitVal(s[1])
  ELSE 10 * ParseInt(Take(s, Len(s) - 1)) + DigitVal(s[Len(s)])

\* The index of the first c in s, 0 when there is none.
RECURSIVE IndexOf(_, _)
IndexOf(s, c) ==
  IF s = <<>> THEN 0
  ELSE IF Head(s) = c THEN 1
  ELSE LET r == IndexOf(Tail(s), c) IN IF r = 0 THEN 0 ELSE r + 1

\* ---------------------------------------------------------------- numbers

Abs(x) == IF x < 0 THEN -x ELSE x

RECURSIVE Gcd(_, _)
Gcd(a, b) == IF b = 0 THEN a ELSE Gcd(b, a % b)

RECURSIVE Pow2(_)
Pow2(k) == IF k = 0 THEN 1 ELSE 2 * Pow2(k - 1)

\* The exact number n/d (d # 0) in lowest terms: an int or a Fraction.
Frac(n, d) ==
  LET g == Gcd(Abs(n), Abs(d))
      s == IF d < 0 THEN -1 ELSE 1
  IN [num |-> (s * n) \div g, den |-> (s * d) \div g, flt |-> FALSE]

Whole(n) == Frac(n, 1)

\* n/d (both positive) scaled by a power of two into [2^(MantBits-1), 2^MantBits).
RECURSIVE Scale(_, _, _)
Scale(n, d, e) ==
  IF n >= d * Pow2(MantBits) THEN Scale(n, 2 * d, e + 1)
  ELSE IF n < d * Pow2(MantBits - 1) THEN Scale(2 * n, d, e - 1)
  ELSE <<n, d, e>>

\* The float sg * m * 2^e for the scaled quotient sc = <<n, d, e>>, m being
\* n/d rounded to an integer, ties to even.
RoundScaled(sg, n, d, e) ==
  LET m == IF 2 * (n % d) > d \/ (2 * (n % d) = d /\ (n \div d) % 2 = 1)
           THEN (n \div d) + 1 ELSE n \div d
  IN IF e >= 0 THEN Frac(sg * m * Pow2(e), 1) ELSE Frac(sg * m, Pow2(-e))

AsFloat(q) == [q EXCEPT !.flt = TRUE]

RoundTriple(sg, sc) == AsFloat(RoundScaled(sg, sc[1], sc[2], sc[3]))

\* The float nearest to n/d (d > 0), ties to the even significand.
RoundFloat(n, d) ==
  IF n = 0 THEN [num |-> 0, den |-> 1, flt |-> TRUE]
  ELSE RoundTriple(IF n < 0 THEN -1 ELSE 1, Scale(Abs(n), d, 0))

\* float(x)
ToFloat(x) == IF x.flt THEN x ELSE RoundFloat(x.num, x.den)

\* The float operations, on two floats.
FloatAdd(x, y) == RoundFloat(x.num * y.den + y.num * x.den, x.den * y.den)

FloatMul(x, y) == RoundFloat(x.num * y.num, x.den * y.den)

FloatDiv(x, y) ==
  IF y.num < 0 THEN RoundFloat(-(x.num * y.den), -(x.den * y.num))
  ELSE RoundFloat(x.num * y.den, x.den * y.num)

\* a + b, a * b, a / b as Python evaluates them: exact between ints and
\* Fractions, and a float operation on float(a), float(b) when one is a float.
NumAdd(a, b) ==
  IF a.flt \/ b.flt THEN FloatAdd(ToFloat(a), ToFloat(b))
  ELSE Frac(a.num * b.den + b.num * a.den, a.den * b.den)

NumMul(a, b) ==
  IF a.flt \/ b.flt THEN FloatMul(ToFloat(a), ToFloat(b))
  ELSE Frac(a.num * b.num, a.den * b.den)

\* Only called with b # 0 (the callers raise ZeroDivisionError otherwise).
NumDiv(a, b) ==
  IF a.flt \/ b.flt THEN FloatDiv(ToFloat(a), ToFloat(b))
  ELSE Frac(a.num * b.den, a.den * b.num)

\* Python's ==, < and <= on numbers compare the exact values.
NumEq(a, b) == a.num = b.num /\ a.den = b.den

NumLt(a, b) == a.num * b.den < b.num * a.den

NumLe(a, b) == a.num * b.den <= b.num * a.den

IsZero(a) == a.num = 0

\* ----------------------------------------------------- Fraction(string)

IsDigits(s) == s # <<>> /\ RunLen(s, DigitSet) = Len(s)

\* The Fraction of sign sg, numerator text n and denominator text d.
FractionParts(sg, n, d) ==
  IF ~(IsDigits(n) /\ IsDigits(d))
    THEN [raised |-> "ValueError", val |-> Whole(0)]
  ELSE IF ParseInt(d) = 0
    THEN [raised |-> "ZeroDivisionError", val |-> Whole(0)]
  ELSE [raised |-> "", val |-> Frac(sg * ParseInt(n), ParseInt(d))]

\* The unsigned text body split at its "/" (at index i, 0 when there is none).
FractionSplit(sg, body, i) ==
  IF i = 0 THEN FractionParts(sg, body, <<"1">>)
  ELSE FractionParts(sg, Take(body, i - 1), Drop(body, i))

FractionSigned(s) ==
  IF s # <<>> /\ Head(s) \in {"-", "+"}
  THEN FractionSplit(IF Head(s) = "-" THEN -1 ELSE 1, Tail(s),
                     IndexOf(Tail(s), "/"))
  ELSE FractionSplit(1, s, IndexOf(s, "/"))

\* Fraction(text) for the forms sign? digits and sign? digits/digits, with
\* surrounding whitespace allowed; ValueError for any other text over the
\* characters considered (no ".", "e" or "_" occurs in the inputs), and
\* ZeroDivisionError for a zero denominator.
FractionOf(text) == FractionSigned(Strip(text))

\* ------------------------------------------------------------ Metadata

\* Metadata.__init__
NewMetadata ==
  [tempo |-> Whole(2),
   key |-> 0,
   accidentals |-> <<>>,
   default_note_length |-> Frac(1, 4)]

\* Metadata.reset_accidentals
\* Variant of reset_accidentals: the table is left as it is.
reset_accidentals_kept(metadata) == metadata

reset_accidentals(metadata) == [metadata EXCEPT !.accidentals = <<>>]

\* d[k] = v on a dict
DictSet(d, k, v) == [x \in DOMAIN d \cup {k} |-> IF x = k THEN v ELSE d[x]]

\* ------------------------------------------------------- parse_abc_note

\* [A-Za-gz], the pitch class of parse_abc_note's pattern.
NotePitchClass == Upper \cup {"a","b","c","d","e","f","g"} \cup {"z"}

OctaveMarks == {",", "'"}

\* The length of the accidental group (\^+|=|_+)? at the start of s: the
\* whole run of "^" or of "_", or one "=".  A shorter run cannot be followed
\* by a pitch letter, so backtracking into the run never yields a match.
AccidentalLen(s) ==
  IF s = <<>> THEN 0
  ELSE IF Head(s) = "^" THEN RunLen(s, {"^"})
  ELSE IF Head(s) = "_" THEN RunLen(s, {"_"})
  ELSE IF Head(s) = "=" THEN 1
  ELSE 0

\* Whether v, the whole rest of the token, is a value: \d*/\d* or \d+, d1
\* being the length of its leading run of digits.
IsValueFrom(v, d1) ==
  IF d1 = Len(v) THEN d1 >= 1
  ELSE v[d1 + 1] = "/" /\ RunLen(Drop(v, d1 + 1), DigitSet) = Len(v) - d1 - 1

IsValueText(v) == IsValueFrom(v, RunLen(v, DigitSet))

\* Variant of NormalValue: a trailing "/" divides by one.
NormalValueWhole(value) ==
  IF value = None THEN <<"1">>
  ELSE IF IndexOf(value, "/") > 0
    THEN IF value = <<"/">> THEN <<"1", "/", "2">>
         ELSE IF Head(value) = "/" THEN <<"1">> \o value
         ELSE IF value[Len(value)] = "/" THEN value \o <<"1">>
         ELSE value
  ELSE value

\* Lines 56-65: the value text that is handed to Fraction().
NormalValue(value) ==
  IF value = None THEN <<"1">>
  ELSE IF IndexOf(value, "/") > 0
    THEN IF value = <<"/">> THEN <<"1", "/", "2">>
         ELSE IF Head(value) = "/" THEN <<"1">> \o value
         ELSE IF value[Len(value)] = "/" THEN value \o <<"2">>
         ELSE value
  ELSE value

NoteError(kind) ==
  [raised |-> kind, accidental |-> None, pitch |-> "", octave |-> <<>>,
   value |-> Whole(0)]

\* Variant of Components: the value as written, not scaled by
\* default_note_length.
ComponentsUnscaled(md, accidental, pitch, octave, frac) ==
  IF frac.raised # "" THEN NoteError(frac.raised)
  ELSE [raised |-> "", accidental |-> accidental, pitch |-> pitch,
        octave |-> octave, value |-> frac.val]

\* Lines 53-71: the components of a token that matched, its groups being
\* accidental, pitch, octave and value.
Components(md, accidental, pitch, octave, frac) ==
  IF frac.raised # "" THEN NoteError(frac.raised)
  ELSE [raised |-> "", accidental |-> accidental, pitch |-> pitch,
        octave |-> octave,
        value |-> NumMul(frac.val, md.default_note_length)]

\* The token from its octave group on: r is the text after the pitch letter
\* and o the length of the run of octave markers.
NoteTail(md, accidental, pitch, r, o) ==
  IF o = Len(r)
    THEN Components(md, accidental, pitch, r, FractionOf(NormalValue(None)))
  ELSE IF IsValueText(Drop(r, o))
    THEN Components(md, accidental, pitch, Take(r, o),
                    FractionOf(NormalValue(Drop(r, o))))
  ELSE NoteError("ValueError")

\* The token from its pitch letter on, after an accidental group of length a.
NoteBody(md, note, a) ==
  IF a < Len(note) /\ note[a + 1] \in NotePitchClass
  THEN NoteTail(md, IF a = 0 THEN None ELSE Take(note, a), note[a + 1],
                Drop(note, a + 1), RunLen(Drop(note, a + 1), OctaveMarks))
  ELSE NoteError("ValueError")

parse_abc_note(metadata, note) == NoteBody(metadata, note, AccidentalLen(note))

\* ------------------------------------------------------ parse_abc_chord

\* [A-Ga-gz], the pitch class of parse_abc_chord's pattern.
ChordPitchClass ==
  {"A","B","C","D","E","F","G","a","b","c","d","e","f","g","z"}

\* The length of the value group (\d*/\d*|\d+)? at the start of v, d1 being
\* the length of its leading run of digits.
ValueLenFrom(v, d1) ==
  IF d1 < Len(v) /\ v[d1 + 1] = "/"
  THEN d1 + 1 + RunLen(Drop(v, d1 + 1), DigitSet)
  ELSE d1

ValueLen(v) == ValueLenFrom(v, RunLen(v, DigitSet))

\* The length of the octave and value groups at the start of r.
TailLen(r, o) == o + ValueLen(Drop(r, o))

\* The length of the match with an accidental group of length a.
NoteLenFrom(s, a) ==
  IF a < Len(s) /\ s[a + 1] \in ChordPitchClass
  THEN a + 1 + TailLen(Drop(s, a + 1), RunLen(Drop(s, a + 1), OctaveMarks))
  ELSE 0

\* The length of the pattern's match starting at the first character of s,
\* 0 when it does not match there.
NoteMatchLen(s) == NoteLenFrom(s, AccidentalLen(s))

\* note_regex.finditer(chord): the matches left to right, no overlap.
RECURSIVE FindNotes(_)
FindFrom(s, n) ==
  IF n > 0 THEN <<Take(s, n)>> \o FindNotes(Drop(s, n)) ELSE FindNotes(Tail(s))

FindNotes(s) == IF s = <<>> THEN <<>> ELSE FindFrom(s, NoteMatchLen(s))

ChordResult(notes) ==
  IF notes = <<>> THEN [raised |-> "ValueError", notes |-> <<>>]
  ELSE [raised |-> "", notes |-> notes]

parse_abc_chord(chord) == ChordResult(FindNotes(chord))

\* ------------------------------------------------------- get_midi_pitch

\* pitch_classes
PitchLetters == <<"C","D","E","F","G","A","B","c","d","e","f","g","a","b">>

PitchNumbers == <<60, 62, 64, 65, 67, 69, 71, 72, 74, 76, 77, 79, 81, 83>>

InPitchClasses(pitch) == \E i \in 1..14 : PitchLetters[i] = pitch

pitch_classes(pitch) ==
  PitchNumbers[CHOOSE i \in 1..14 : PitchLetters[i] = pitch]

one_octave == 12

\* pitch.upper()
ToUpper(pitch) ==
  IF \E i \in 8..14 : PitchLetters[i] = pitch
  THEN PitchLetters[(CHOOSE i \in 8..14 : PitchLetters[i] = pitch) - 7]
  ELSE pitch

\* Lines 116-118.
octave_direction(octave) ==
  IF Len(octave) > 0 THEN (IF octave[1] = "'" THEN 1 ELSE -1) ELSE 0

\* The dictionary key f'{pitch}{octave}'.
Spelling(pitch, octave) == <<pitch>> \o octave

\* Lines 122-126: the offset written for an explicit accidental.
AccidentalOffset(accidental) ==
  IF accidental = <<"=">> THEN 0
  ELSE (IF Head(accidental) = "^" THEN 1 ELSE -1) * Len(accidental)

\* Lines 133-148: the key signature's offset for a letter, u being
\* pitch.upper().
KeyOffset(key, u) ==
  (IF \/ key >= 1 /\ u = "F"
      \/ key >= 2 /\ u = "C"
      \/ key >= 3 /\ u = "G"
      \/ key >= 4 /\ u = "D"
      \/ key >= 5 /\ u = "A"
      \/ key >= 6 /\ u = "E"
      \/ key >= 7 /\ u = "B"
   THEN 1 ELSE 0)
  - (IF \/ key <= -1 /\ u = "B"
        \/ key <= -2 /\ u = "E"
        \/ key <= -3 /\ u = "A"
        \/ key <= -4 /\ u = "D"
        \/ key <= -5 /\ u = "G"
        \/ key <= -6 /\ u = "C"
        \/ key <= -7 /\ u = "F"
     THEN 1 ELSE 0)

KeySignature(key, pitch) == KeyOffset(key, ToUpper(pitch))

\* Variant of StoreAccidental: an accidental already stored for the
\* spelling is kept.
StoreAccidentalOnce(metadata, accidental, pitch, octave) ==
  IF accidental # None /\ Spelling(pitch, octave) \notin DOMAIN metadata.accidentals
  THEN [metadata EXCEPT !.accidentals =
          DictSet(@, Spelling(pitch, octave), AccidentalOffset(accidental))]
  ELSE metadata

\* Lines 121-126: the metadata after an explicit accidental was recorded.
StoreAccidental(metadata, accidental, pitch, octave) ==
  IF accidental # None
  THEN [metadata EXCEPT !.accidentals =
          DictSet(@, Spelling(pitch, octave), AccidentalOffset(accidental))]
  ELSE metadata

\* Lines 130-148: the offset applied to the base pitch.
ResolveOffset(metadata, pitch, octave) ==
  IF Spelling(pitch, octave) \in DOMAIN metadata.accidentals
  THEN metadata.accidentals[Spelling(pitch, octave)]
  ELSE KeySignature(metadata.key, pitch)

\* Lines 128-149 on the metadata md left by lines 121-126.
PitchResult(md, pitch, octave) ==
  IF ~InPitchClasses(pitch)
    THEN [raised |-> "KeyError", metadata |-> md, midi_pitch |-> 0]
  ELSE [raised |-> "",
        metadata |-> md,
        midi_pitch |-> pitch_classes(pitch)
                         + octave_direction(octave) * one_octave * Len(octave)
                         + ResolveOffset(md, pitch, octave)]

\* The pitch returned, or KeyError, and the metadata as the call leaves it.
get_midi_pitch(metadata, accidental, pitch, octave) ==
  PitchResult(StoreAccidental(metadata, accidental, pitch, octave), pitch, octave)

\* ------------------------------------------------------- parse_meta_key

\* key_accidentals
KeyNames ==
  << <<"C","b">>, <<"G","b">>, <<"D","b">>, <<"A","b">>, <<"E","b">>,
     <<"B","b">>, <<"F">>, <<"C">>, <<"G">>, <<"D">>, <<"A">>, <<"E">>,
     <<"B">>, <<"F","#">>, <<"C","#">> >>

\* Variant of InKeyAccidentals: only the names without "b" or "#" are known.
InKeyAccidentalsPlain(line) == \E i \in 7..13 : KeyNames[i] = line

InKeyAccidentals(line) == \E i \in 1..15 : KeyNames[i] = line

\* Variant of key_accidentals: every key one step sharper.
key_accidentals_sharper(line) == (CHOOSE i \in 1..15 : KeyNames[i] = line) - 7

key_accidentals(line) == (CHOOSE i \in 1..15 : KeyNames[i] = line) - 8

\* Variant of parse_meta_key: the stored accidentals survive the K line.
parse_meta_key_keeping(metadata, line) ==
  IF ~InKeyAccidentals(line)
  THEN [raised |-> "KeyError", metadata |-> metadata]
  ELSE [raised |-> "",
        metadata |-> [metadata EXCEPT !.key = key_accidentals(line)]]

parse_meta_key(metadata, line) ==
  IF ~InKeyAccidentals(line)
  THEN [raised |-> "KeyError", metadata |-> metadata]
  ELSE [raised |-> "",
        metadata |-> reset_accidentals(
                       [metadata EXCEPT !.key = key_accidentals(line)])]

\* ---------------------------------------------------------- parse_tempo

\* \d+/\d+|\d+, i being the index of the first "/" of u.
IsUnitFrom(u, i) ==
  IF i = 0 THEN IsDigits(u)
  ELSE IsDigits(Take(u, i - 1)) /\ IsDigits(Drop(u, i))

IsUnitText(u) == IsUnitFrom(u, IndexOf(u, "/"))

\* The groups of ^((?P<unit>\d+/\d+|\d+)=)?(?P<bpm>\d+)$ on line, i being
\* the index of the first "=" of line.
TempoGroups(line, i) ==
  IF i = 0 THEN [matched |-> IsDigits(line), unit |-> None, bpm |-> line]
  ELSE [matched |-> IsDigits(Drop(line, i)) /\ IsUnitText(Take(line, i - 1)),
        unit |-> Take(line, i - 1), bpm |-> Drop(line, i)]

TempoMatch(line) == TempoGroups(line, IndexOf(line, "="))

\* 60 / int(bpm) / Fraction(unit): int / int is a float, and the float
\* divided by a Fraction is float / float(Fraction).
TempoValue(bpm, unit) == NumDiv(RoundFloat(60, bpm), unit)

\* Line 198 with int(bpm) and Fraction(unit) evaluated.
InstallTempo(md, bpm, unit) ==
  IF bpm = 0 \/ unit.raised # "" \/ IsZero(unit.val)
    THEN [raised |-> "ZeroDivisionError", metadata |-> md]
  ELSE [raised |-> "",
        metadata |-> [md EXCEPT !.tempo = TempoValue(bpm, unit.val)]]

\* Lines 189-198 on the groups m of the match.
TempoFrom(md, m) ==
  IF ~m.matched THEN [raised |-> "ValueError", metadata |-> md]
  ELSE InstallTempo(md, ParseInt(m.bpm),
         FractionOf(IF m.unit = None THEN <<"1", "/", "4">> ELSE m.unit))

parse_tempo(metadata, line) == TempoFrom(metadata, TempoMatch(line))

\* ---------------------------------------------------- abc_to_piano_roll

VARIABLES
  metadata,         \* the Metadata object of the compilation
  piano_roll,       \* the events appended so far: <<start, end, pitch, velocity>>
  seconds_elapsed,  \* seconds elapsed before the last tempo change
  beats_elapsed,    \* beats elapsed after the last tempo change
  pending,          \* the items of the current note line not processed yet
  pc,               \* "lines", "items", "returned", "raised" or "unit"
  raised,           \* the type of the exception that ended the call, or ""
  nread,            \* the number of lines of abc consumed
  log,              \* history: the K lines installed and the pitches resolved
  twin,             \* a second compilation, of the same lines plus one tempo line
  call              \* the last direct call of a parsing function

vars ==
  <<metadata, piano_roll, seconds_elapsed, beats_elapsed, pending, pc, raised,
    nread, log, twin, call>>

\* The locals of abc_to_piano_roll on entry (lines 208-211).
NewRun ==
  [metadata |-> NewMetadata,
   piano_roll |-> <<>>,
   seconds_elapsed |-> Whole(0),
   beats_elapsed |-> Whole(0),
   raised |-> ""]

Raise(st, kind) == [st EXCEPT !.raised = kind]

\* Line 215: re.sub(r'%.+$', '', line), i being the index of the first "%".
\* The pattern needs one character after the "%".
CutComment(line, i) ==
  IF i > 0 /\ i < Len(line) THEN Take(line, i - 1) ELSE line

\* Line 215: re.sub(r'%.+$', '', line).strip()
StripComment(line) == Strip(CutComment(line, IndexOf(line, "%")))

\* Line 220: re.match(r'^[A-Z]:', line)
IsMetadataLine(line) == Len(line) >= 2 /\ line[1] \in Upper /\ line[2] = ":"

\* line.split(' ')
RECURSIVE Split(_)
SplitAt(line, i) ==
  IF i = 0 THEN <<line>> ELSE <<Take(line, i - 1)>> \o Split(Drop(line, i))

Split(line) == SplitAt(line, IndexOf(line, " "))

\* Line 227 with the outcome r of parse_meta_key.
KeyLine(st, r) == [st EXCEPT !.metadata = r.metadata, !.raised = r.raised]

\* Lines 230-234 with the outcome r of parse_tempo.
TempoLine(st, r) ==
  [st EXCEPT
     !.seconds_elapsed = NumAdd(@, NumMul(st.metadata.tempo, st.beats_elapsed)),
     !.beats_elapsed = Whole(0),
     !.metadata = r.metadata,
     !.raised = r.raised]

\* Variant of LengthLine: the new length scales the one in effect.
LengthLineCumulative(st, r) ==
  IF r.raised # "" THEN Raise(st, r.raised)
  ELSE [st EXCEPT !.metadata.default_note_length = NumMul(@, r.val)]

\* Line 236 with the outcome r of Fraction(line).
LengthLine(st, r) ==
  IF r.raised # "" THEN Raise(st, r.raised)
  ELSE [st EXCEPT !.metadata.default_note_length = r.val]

\* Lines 226-236: the effect of a metadata line of the given type.
MetadataLine(st, metadata_type, text) ==
  IF metadata_type = "K" THEN KeyLine(st, parse_meta_key(st.metadata, text))
  ELSE IF metadata_type = "Q" THEN TempoLine(st, parse_tempo(st.metadata, text))
  ELSE IF metadata_type = "L" THEN LengthLine(st, FractionOf(text))
  ELSE st

\* Lines 217-240 on the line l that line 215 left.
LineStripped(st, l) ==
  IF l = <<>> THEN [st |-> st, items |-> <<>>]
  ELSE IF IsMetadataLine(l)
    THEN [st |-> MetadataLine(st, l[1], Strip(Drop(l, 2))), items |-> <<>>]
  ELSE [st |-> st, items |-> Split(l)]

\* Lines 215-240: one line of abc, up to the split into items.
LineStep(st, line) == LineStripped(st, StripComment(line))

\* Line 248: [parse_abc_note(metadata, note) for note in chord]
ParseNotes(md, notes) ==
  [i \in 1..Len(notes) |-> parse_abc_note(md, notes[i])]

\* The exception of the first note of the list that does not parse, or "".
FirstRaised(parsed) ==
  IF \E i \in 1..Len(parsed) : parsed[i].raised # ""
  THEN parsed[CHOOSE i \in 1..Len(parsed) :
                /\ parsed[i].raised # ""
                /\ \A j \in 1..(i - 1) : parsed[j].raised = ""].raised
  ELSE ""

Smaller(a, b) == IF NumLt(b, a) THEN b ELSE a

\* min([note['value'] for note in chord])
RECURSIVE MinValue(_)
MinValue(chord) ==
  IF Len(chord) = 1 THEN chord[1].value
  ELSE Smaller(chord[1].value, MinValue(Tail(chord)))

\* Line 257.
StartTime(st) ==
  NumAdd(st.seconds_elapsed, NumMul(st.metadata.tempo, st.beats_elapsed))

\* Lines 258-260: the event of a note of the given value and pitch.
NoteEvent(st, value, midi_pitch, start_time) ==
  <<start_time, NumAdd(start_time, NumMul(st.metadata.tempo, value)),
    midi_pitch, 80>>

\* Lines 255-260 with the outcome r of get_midi_pitch.
AfterPitch(st, components, r) ==
  IF r.raised # "" THEN [st EXCEPT !.metadata = r.metadata, !.raised = r.raised]
  ELSE [st EXCEPT
          !.metadata = r.metadata,
          !.piano_roll = Append(@, NoteEvent(st, components.value,
                                             r.midi_pitch, StartTime(st)))]

\* Lines 251-260: one note of a chord.
EmitNote(st, components) ==
  IF components.pitch = "z" THEN st
  ELSE AfterPitch(st, components,
         get_midi_pitch(st.metadata, components.accidental, components.pitch,
                        components.octave))

\* Lines 250-260: the notes of a chord in turn.
RECURSIVE EmitNotes(_, _)
EmitNotes(st, chord) ==
  IF chord = <<>> \/ st.raised # "" THEN st
  ELSE EmitNotes(EmitNote(st, Head(chord)), Tail(chord))

\* Variant of ChordAdvance: the value of the chord's last note.
ChordAdvanceLast(chord) == chord[Len(chord)].value

\* Line 262: the beats the chord advances the clock by.
ChordAdvance(chord) == MinValue(chord)

\* Line 262 on the state done that the chord's notes left.
Advance(done, chord) ==
  IF done.raised # "" THEN done
  ELSE [done EXCEPT !.beats_elapsed = NumAdd(@, ChordAdvance(chord))]

\* Lines 248-262 on the parsed notes.
ChordNotes(st, chord) ==
  IF FirstRaised(chord) # "" THEN Raise(st, FirstRaised(chord))
  ELSE Advance(EmitNotes(st, chord), chord)

\* Lines 246-262 with the outcome found of parse_abc_chord.
ChordFound(st, found) ==
  IF found.raised # "" THEN Raise(st, found.raised)
  ELSE ChordNotes(st, ParseNotes(st.metadata, found.notes))

\* Lines 243-244: a bare note becomes a chord of one note.
Wrap(item) ==
  IF item # <<>> /\ Head(item) = "[" THEN item ELSE <<"[">> \o item \o <<"]">>

\* Lines 243-262: one item of a note line.
ChordItem(st, item) == ChordFound(st, parse_abc_chord(Wrap(item)))

RECURSIVE RunItems(_, _)
RunItems(st, items) ==
  IF items = <<>> \/ st.raised # "" THEN st
  ELSE RunItems(ChordItem(st, Head(items)), Tail(items))

RunSplit(r) == RunItems(r.st, r.items)

\* One whole iteration of the loop over abc.
RunLine(st, line) == IF st.raised # "" THEN st ELSE RunSplit(LineStep(st, line))

\* ----------------------------------------------------------- the inputs

\* L:1
LineLength1 == <<"L",":","1">>

\* L:0
LineLength0 == <<"L",":","0">>

\* L:-1/4
LineLengthNeg == <<"L",":","-","1","/","4">>

\* [C2E4] D
LineChord == <<"[","C","2","E","4","]"," ","D">>

\* K:F#
LineKeyFs == <<"K",":","F","#">>

\* K:Bb
LineKeyBb == <<"K",":","B","b">>

\* B
LineB == <<"B">>

\* _C,, C,, C,
LineFlatC == <<"_","C",",",","," ","C",",",","," ","C",",">>

\* C,, c
LinePlainC == <<"C",",",","," ","c">>

\* z4
LineRest == <<"z","4">>

\* CH4
LineCH4 == <<"C","H","4">>

\* [CH4E]
LineChordCH4E == <<"[","C","H","4","E","]">>

\* Q:60
LineTempo60 == <<"Q",":","6","0">>

\* Q:0
LineTempo0 == <<"Q",":","0">>

\* (an empty line)
LineBlank == <<>>

\* X:1
LineIndex == <<"X",":","1">>

Lines ==
  {LineLength1,
   LineLength0,
   LineLengthNeg,
   LineChord,
   LineKeyFs,
   LineKeyBb,
   LineB,
   LineFlatC,
   LinePlainC,
   LineRest,
   LineCH4,
   LineChordCH4E,
   LineTempo60,
   LineTempo0,
   LineBlank,
   LineIndex}

\* L:1/3
LineLengthThird == <<"L",":","1","/","3">>

\* C
LineC == <<"C">>

\* Q: 120
LineTempo120 == <<"Q",":"," ","1","2","0">>

TwinLines == {LineLengthThird, LineC, LineChord, LineTempo60, LineKeyFs}

\* ------------------------------------------------------------ the steps

Cur ==
  [metadata |-> metadata,
   piano_roll |-> piano_roll,
   seconds_elapsed |-> seconds_elapsed,
   beats_elapsed |-> beats_elapsed,
   raised |-> raised]

NoCall ==
  [fn |-> "", note |-> <<>>, accidental |-> None, pitch |-> "", octave |-> <<>>,
   raised |-> "", value |-> Whole(0), midi_pitch |-> 0, before |-> NewMetadata,
   n |-> 0]

NoTwin == [on |-> FALSE, forked |-> FALSE, qlines |-> 0, st |-> NewRun]

InitRun ==
  /\ metadata = NewMetadata
  /\ piano_roll = <<>>
  /\ seconds_elapsed = Whole(0)
  /\ beats_elapsed = Whole(0)
  /\ pending = <<>>
  /\ raised = ""
  /\ nread = 0
  /\ log = <<>>
  /\ call = NoCall

Init == InitRun /\ pc = "lines" /\ twin = NoTwin

TypeOf(l) == IF IsMetadataLine(l) THEN l[1] ELSE ""

LineType(line) == TypeOf(StripComment(line))

\* Line 224: the text of a metadata line after its type.
LineText(line) == Strip(Drop(StripComment(line), 2))

KeyEntry(key, name) ==
  [kind |-> "K", key |-> key, name |-> name, accidental |-> None,
   pitch |-> "", octave |-> <<>>, midi |-> 0]

\* The pitched members of the chord of an item, in order.
Pitched(md, item) ==
  SelectSeq(ParseNotes(md, parse_abc_chord(Wrap(item)).notes),
            LAMBDA c : c.pitch # "z")

NoteLog(key, ns, events) ==
  [i \in 1..Len(events) |->
     [kind |-> "note", key |-> key, name |-> <<>>,
      accidental |-> ns[i].accidental,
      pitch |-> ns[i].pitch, octave |-> ns[i].octave, midi |-> events[i][3]]]

NoteEntries(md, item, events) == NoteLog(md.key, Pitched(md, item), events)

\* The variables after a step that left the compilation in st.
Becomes(st) ==
  /\ metadata' = st.metadata
  /\ piano_roll' = st.piano_roll
  /\ seconds_elapsed' = st.seconds_elapsed
  /\ beats_elapsed' = st.beats_elapsed
  /\ raised' = st.raised

AfterLine(r, line) ==
  /\ Becomes(r.st)
  /\ pending' = r.items
  /\ pc' = IF r.st.raised # "" THEN "raised"
           ELSE IF r.items # <<>> THEN "items" ELSE "lines"
  /\ log' = IF LineType(line) = "K" /\ r.st.raised = ""
            THEN Append(log, KeyEntry(r.st.metadata.key, LineText(line))) ELSE log

TwinLine(tw, line) ==
  [tw EXCEPT !.st = RunLine(@, line),
             !.qlines = @ + (IF LineType(line) = "Q" THEN 1 ELSE 0)]

\* The loop of line 213 takes the next line of abc.
ReadLine(line) ==
  /\ pc = "lines"
  /\ nread < MaxLines
  /\ AfterLine(LineStep(Cur, line), line)
  /\ nread' = nread + 1
  /\ twin' = IF twin.on THEN TwinLine(twin, line) ELSE twin
  /\ call' = call

AfterItem(st) ==
  /\ Becomes(st)
  /\ pc' = IF st.raised # "" THEN "raised"
           ELSE IF Tail(pending) # <<>> THEN "items" ELSE "lines"
  /\ log' = IF st.raised # "" THEN log
            ELSE log \o NoteEntries(metadata, Head(pending),
                          SubSeq(st.piano_roll, Len(piano_roll) + 1,
                                 Len(st.piano_roll)))

\* The loop of line 241 takes the next item of the line.
ProcessItem ==
  /\ pc = "items"
  /\ AfterItem(ChordItem(Cur, Head(pending)))
  /\ pending' = Tail(pending)
  /\ UNCHANGED <<nread, twin, call>>

\* Line 264: abc is exhausted and the piano roll is returned.
Return ==
  /\ pc = "lines"
  /\ pc' = "returned"
  /\ UNCHANGED <<metadata, piano_roll, seconds_elapsed, beats_elapsed, pending,
                 raised, nread, log, twin, call>>

Next == (\E line \in Lines : ReadLine(line)) \/ ProcessItem \/ Return

Spec == Init /\ [][Next]_vars

\* ------------------------------------- the same piece with a tempo line

\* The second compilation reads the tempo line "Q: 120" here, between two
\* lines of the piece, at a point where no beat has elapsed.
InsertTempo ==
  /\ pc = "lines"
  /\ twin.on
  /\ ~twin.forked
  /\ twin.st.raised = ""
  /\ IsZero(twin.st.beats_elapsed)
  /\ twin' = [twin EXCEPT !.st = RunLine(@, LineTempo120), !.forked = TRUE]
  /\ UNCHANGED <<metadata, piano_roll, seconds_elapsed, beats_elapsed, pending,
                 pc, raised, nread, log, call>>

InitTwin == InitRun /\ pc = "lines" /\ twin = [NoTwin EXCEPT !.on = TRUE]

NextTwin ==
  \/ \E line \in TwinLines : ReadLine(line)
  \/ ProcessItem
  \/ Return
  \/ InsertTempo

SpecTwin == InitTwin /\ [][NextTwin]_vars

\* --------------------------------------- direct calls of the functions

\* Direct calls made on one Metadata object.
MaxCalls == 2

\* H4
NoteH4 == <<"H","4">>

\* ^H4
NoteSharpH4 == <<"^","H","4">>

\* _C,,2
NoteFlatC == <<"_","C",",",",","2">>

\* h4
NoteLowerH4 == <<"h","4">>

UnitNotes == {NoteH4, NoteSharpH4, NoteFlatC, NoteLowerH4}

UnitAccidentals == {None, <<"^">>, <<"^","^">>, <<"_">>, <<"_","_">>, <<"=">>}

UnitPitches == {"C", "H"}

UnitOctaves == {<<>>, <<",",",">>}

\* Accidental tables left by earlier notes.
UnitTables == {<<>>, (<<"C">> :> -1) @@ (<<"C",",",",">> :> 2)}

InitUnit ==
  /\ metadata \in [tempo : {Whole(2)}, key : -7..7, accidentals : UnitTables,
                   default_note_length : {Frac(1, 4)}]
  /\ piano_roll = <<>>
  /\ seconds_elapsed = Whole(0)
  /\ beats_elapsed = Whole(0)
  /\ pending = <<>>
  /\ raised = ""
  /\ nread = 0
  /\ log = <<>>
  /\ call = NoCall
  /\ pc = "unit"
  /\ twin = NoTwin

NoteCall(note, r) ==
  [fn |-> "parse_abc_note", note |-> note, accidental |-> r.accidental,
   pitch |-> r.pitch, octave |-> r.octave, raised |-> r.raised,
   value |-> r.value, midi_pitch |-> 0, before |-> metadata, n |-> call.n + 1]

\* parse_abc_note(metadata, note)
CallParseNote(note) ==
  /\ pc = "unit"
  /\ call.n < MaxCalls
  /\ call' = NoteCall(note, parse_abc_note(metadata, note))
  /\ UNCHANGED <<metadata, piano_roll, seconds_elapsed, beats_elapsed, pending,
                 pc, raised, nread, log, twin>>

PitchCall(accidental, pitch, octave, r) ==
  [fn |-> "get_midi_pitch", note |-> <<>>, accidental |-> accidental,
   pitch |-> pitch, octave |-> octave, raised |-> r.raised,
   value |-> Whole(0), midi_pitch |-> r.midi_pitch, before |-> metadata,
   n |-> call.n + 1]

AfterPitchCall(accidental, pitch, octave, r) ==
  /\ metadata' = r.metadata
  /\ call' = PitchCall(accidental, pitch, octave, r)

\* get_midi_pitch(metadata, accidental, pitch, octave)
CallGetMidiPitch(accidental, pitch, octave) ==
  /\ pc = "unit"
  /\ call.n < MaxCalls
  /\ AfterPitchCall(accidental, pitch, octave,
                    get_midi_pitch(metadata, accidental, pitch, octave))
  /\ UNCHANGED <<piano_roll, seconds_elapsed, beats_elapsed, pending, pc,
                 raised, nread, log, twin>>

NextUnit ==
  \/ \E note \in UnitNotes : CallParseNote(note)
  \/ \E accidental \in UnitAccidentals, pitch \in UnitPitches,
        octave \in UnitOctaves : CallGetMidiPitch(accidental, pitch, octave)

SpecUnit == InitUnit /\ [][NextUnit]_vars

\* ------------------------------------------- the durations of a token

\* Positive integers as they are written in a token, with their values.
WrittenNumbers == {<< <<"1">>, 1 >>, << <<"3">>, 3 >>, << <<"1","2">>, 12 >>}

\* The note C with every form of written duration: absent, n, /, /n, n/
\* and n/m.
DurationNotes ==
  {<<"C">>, <<"C","/">>}
    \cup {<<"C">> \o n[1] : n \in WrittenNumbers}
    \cup {<<"C","/">> \o n[1] : n \in WrittenNumbers}
    \cup {<<"C">> \o n[1] \o <<"/">> : n \in WrittenNumbers}
    \cup {<<"C">> \o n[1] \o <<"/">> \o m[1] :
             n \in WrittenNumbers, m \in WrittenNumbers}

\* A Metadata object whose default_note_length was set by an earlier L line.
InitNote ==
  /\ metadata \in [tempo : {Whole(2)}, key : {0}, accidentals : {<<>>},
                   default_note_length :
                     {Frac(1, 4), Frac(1, 3), Whole(1), Frac(3, 2)}]
  /\ piano_roll = <<>>
  /\ seconds_elapsed = Whole(0)
  /\ beats_elapsed = Whole(0)
  /\ pending = <<>>
  /\ raised = ""
  /\ nread = 0
  /\ log = <<>>
  /\ call = NoCall
  /\ pc = "unit"
  /\ twin = NoTwin

SpecNote ==
  InitNote /\ [][\E note \in DurationNotes : CallParseNote(note)]_vars

\* -------------------------------------------------- the key signatures

\* The texts of K lines: the names of the table and some others.
KeyTexts ==
  {KeyNames[i] : i \in 1..15}
    \cup {<<>>, <<"H">>, <<"c">>, <<"f","#">>, <<"C","m">>, <<"F"," ","#">>}

\* parse_meta_key(metadata, line)
CallParseMetaKey(line) ==
  /\ pc = "unit"
  /\ call.n < MaxCalls
  /\ metadata' = parse_meta_key(metadata, line).metadata
  /\ call' = [NoCall EXCEPT !.fn = "parse_meta_key",
                            !.note = line,
                            !.raised = parse_meta_key(metadata, line).raised,
                            !.before = metadata,
                            !.n = call.n + 1]
  /\ UNCHANGED <<piano_roll, seconds_elapsed, beats_elapsed, pending, pc,
                 raised, nread, log, twin>>

SpecKey == InitUnit /\ [][\E line \in KeyTexts : CallParseMetaKey(line)]_vars

\* ------------------------------------- the same piece written otherwise

\* The loop of line 213 takes the next line of abc, and the second
\* compilation takes the text other in its place.
ReadAs(line, other) ==
  /\ pc = "lines"
  /\ nread < MaxLines
  /\ AfterLine(LineStep(Cur, line), line)
  /\ nread' = nread + 1
  /\ twin' = TwinLine(twin, other)
  /\ call' = call

\* Lines with and without a comment: "%", "C %", "% x", "C % x",
\* "L:1 % x", "K:Bb % k", "K:Bb %", "E" and "C D%".
CommentLines ==
  { <<"%">>,
    <<"C"," ","%">>,
    <<"%"," ","x">>,
    <<"C"," ","%"," ","x">>,
    <<"L",":","1"," ","%"," ","x">>,
    <<"K",":","B","b"," ","%"," ","k">>,
    <<"K",":","B","b"," ","%">>,
    <<"E">>,
    <<"C"," ","D","%">> }

\* Lines whose tokens are separated by one space, and metadata lines:
\* "C D", "[CE] G z2", "^C C", "E", "L:1" and "K:Bb".
SpaceLines ==
  { <<"C"," ","D">>,
    <<"[","C","E","]"," ","G"," ","z","2">>,
    <<"^","C"," ","C">>,
    <<"E">>,
    <<"L",":","1">>,
    <<"K",":","B","b">> }

\* ------------------------------------------------------------- claims

\* The chord that the item at the head of pending parses to.
HeadChord == ParseNotes(metadata, parse_abc_chord(Wrap(Head(pending))).notes)

\* The events that the step appended.
Appended == SubSeq(piano_roll', Len(piano_roll) + 1, Len(piano_roll'))

KeepsEvents ==
  /\ Len(piano_roll') >= Len(piano_roll)
  /\ SubSeq(piano_roll', 1, Len(piano_roll)) = piano_roll

NotRests(chord) == SelectSeq(chord, LAMBDA c : c.pitch # "z")

\* The item is processed by this step, without an exception.
ItemDone == pc = "items" /\ pc' \in {"items", "lines"}

\* Every member of the chord starts at s + t*b and ends t*v later.
TimedAsChord(chord, events, s, b, t) ==
  /\ Len(events) = Len(NotRests(chord))
  /\ \A i \in 1..Len(events) :
       /\ NumEq(events[i][1], NumAdd(s, NumMul(t, b)))
       /\ NumEq(events[i][2],
                NumAdd(events[i][1], NumMul(t, NotRests(chord)[i].value)))
       /\ events[i][4] = 80

\* m is the least value among the members of the chord, rests included.
IsLeastValue(m, chord) ==
  /\ \E i \in 1..Len(chord) : NumEq(chord[i].value, m)
  /\ \A i \in 1..Len(chord) : NumLe(m, chord[i].value)

\* [C2E4]
ItemC2E4 == <<"[","C","2","E","4","]">>

\* [C2E4] with default_note_length = 1 and tempo = 2 at time zero.
ExampleChordStep ==
  ( /\ Head(pending) = ItemC2E4
    /\ metadata.default_note_length = Whole(1)
    /\ metadata.tempo = Whole(2)
    /\ IsZero(seconds_elapsed) /\ IsZero(beats_elapsed) )
  => /\ Len(Appended) = 2
     /\ <<Appended[1][1], Appended[1][2]>> = <<Whole(0), Whole(4)>>
     /\ <<Appended[2][1], Appended[2][2]>> = <<Whole(0), Whole(8)>>
     /\ beats_elapsed' = Whole(2)

\* C1: a chord processed at elapsed seconds s, elapsed beats b and tempo t
\* appends, for each member that is not a rest, the event (s + t*b,
\* start + t*v, pitch, 80), keeps the earlier events, and advances
\* beats_elapsed by the least value of its members, rests included; [C2E4]
\* with default_note_length 1 and tempo 2 gives C (0,4), E (0,8) and leaves
\* beats_elapsed = 2, so that the next chord starts at 4.
C1_ChordTiming ==
  [][ItemDone =>
        /\ KeepsEvents
        /\ TimedAsChord(HeadChord, Appended, seconds_elapsed, beats_elapsed,
                        metadata.tempo)
        /\ \E i \in 1..Len(HeadChord) :
             /\ IsLeastValue(HeadChord[i].value, HeadChord)
             /\ NumEq(beats_elapsed',
                      NumAdd(beats_elapsed, HeadChord[i].value))
        /\ ExampleChordStep]_vars

\* C1 witness: L:1 then "[C2E4] D" was compiled: C (0,4), E (0,8), and D
\* starts at 4.
C1_Witness ==
  /\ pc = "lines"
  /\ Len(piano_roll) = 3
  /\ piano_roll[1] = <<Whole(0), Whole(4), 60, 80>>
  /\ piano_roll[2] = <<Whole(0), Whole(8), 64, 80>>
  /\ piano_roll[3][1] = Whole(4)
  /\ piano_roll[3][3] = 62

\* The notes whose letter is none of A-G, a-g, z.
InvalidLetterNotes == {NoteH4, NoteSharpH4}

\* C2: a note token whose letter is not one of A-G, a-g or the rest symbol
\* ("H4", "^H4") makes parse_abc_note raise ValueError, and the metadata is
\* what it was before the call, also when the token's letter is passed on to
\* get_midi_pitch.
C2_InvalidLetterRejected ==
  /\ (call.fn = "parse_abc_note" /\ call.note \in InvalidLetterNotes)
       => (call.raised = "ValueError" /\ metadata = call.before)
  /\ (call.fn = "get_midi_pitch" /\ call.pitch = "H")
       => metadata = call.before

\* The K lines read so far.
KeysRead == {j \in 1..Len(log) : log[j].kind = "K"}

\* A step that resolves the single unmarked note B, the last K line read
\* having the given text and no accidental being stored.
UnmarkedB(name) ==
  /\ ItemDone
  /\ Head(pending) = <<"B">>
  /\ KeysRead # {}
  /\ log[CHOOSE j \in KeysRead : \A k \in KeysRead : k <= j].name = name
  /\ metadata.accidentals = <<>>

ResolvesTo(pitch) == Len(Appended) = 1 /\ Appended[1][3] = pitch

\* C3 as stated: with an empty accidental table, an unmarked B resolves to
\* the base pitch of B plus 1 after the K line "F#" and to the base pitch
\* of B minus 1 after the K line "Bb".
C3_AsStated ==
  [][/\ UnmarkedB(LineText(LineKeyFs)) => ResolvesTo(71 + 1)
     /\ UnmarkedB(LineText(LineKeyBb)) => ResolvesTo(71 - 1)]_vars

\* C3: with an empty accidental table, an unmarked B resolves to the base
\* pitch of B, unchanged, after the K line "F#" (only F, C, G, D, A and E
\* are raised), and to the base pitch of B minus 1 after the K line "Bb".
C3_KeySignature ==
  [][/\ UnmarkedB(LineText(LineKeyFs)) => ResolvesTo(71)
     /\ UnmarkedB(LineText(LineKeyBb)) => ResolvesTo(71 - 1)]_vars

\* C3 witness: "K:F#" was installed and then "B" resolved to 71.
C3_Witness ==
  /\ Len(log) = 2
  /\ log[1].kind = "K" /\ log[1].name = <<"F","#">>
  /\ log[2].kind = "note" /\ log[2].accidental = None
  /\ log[2].pitch = "B" /\ log[2].octave = <<>> /\ log[2].midi = 71

\* The offset an accidental mark stands for: its run length, signed.
MarkOffset(accidental) ==
  IF accidental = <<"=">> THEN 0
  ELSE IF Head(accidental) = "^" THEN Len(accidental)
  ELSE -Len(accidental)

\* Base pitch plus octave shift.
Unshifted(pitch, octave) ==
  pitch_classes(pitch)
    + (IF octave = <<>> THEN 0
       ELSE IF Head(octave) = "'" THEN 12 * Len(octave)
       ELSE -12 * Len(octave))

SameSpelling(e, f) == e.pitch = f.pitch /\ e.octave = f.octave

\* The entries before entry i that decide an unmarked note with i's
\* spelling: the K lines, and the notes of that spelling with a mark.
Deciders(i) ==
  {j \in 1..(i - 1) :
     \/ log[j].kind = "K"
     \/ /\ log[j].kind = "note"
        /\ log[j].accidental # None
        /\ SameSpelling(log[j], log[i])}

Latest(S) == CHOOSE j \in S : \A k \in S : k <= j

Keys(i) == {j \in 1..(i - 1) : log[j].kind = "K"}

\* The key signature in force at entry i.
KeyAt(i) == IF Keys(i) = {} THEN 0 ELSE log[Latest(Keys(i))].key

\* C4: an unmarked note resolves to base + octave shift + d when the latest
\* of the K lines and of the marked notes with its exact spelling (letter and
\* octave markers) before it is a marked note, of offset d, whatever the key
\* signature; and from the key signature alone when that is a K line or
\* there is none.  Marked notes of another spelling never count.
C4_StoredAccidental ==
  \A i \in 1..Len(log) :
    (log[i].kind = "note" /\ log[i].accidental = None) =>
      IF Deciders(i) # {} /\ log[Latest(Deciders(i))].kind = "note"
      THEN log[i].midi = Unshifted(log[i].pitch, log[i].octave)
                           + MarkOffset(log[Latest(Deciders(i))].accidental)
      ELSE log[i].midi = Unshifted(log[i].pitch, log[i].octave)
                           + KeySignature(KeyAt(i), log[i].pitch)

\* C4 witness: "_C,, C,, C," then "K:F#" then "C,, c": the unmarked C,, of
\* the first line took the stored -1, and the one after the K line took the
\* key signature's +1.
C4_Witness ==
  /\ Len(log) = 6
  /\ log[1].accidental = <<"_">> /\ log[1].midi = 35
  /\ log[2].accidental = None /\ SameSpelling(log[2], log[1])
  /\ log[2].midi = 35
  /\ log[4].kind = "K" /\ log[4].key = 6
  /\ log[5].accidental = None /\ SameSpelling(log[5], log[1])
  /\ log[5].midi = 37

\* C5: while no exception was raised, tempo and default_note_length are
\* strictly positive.
C5_PositiveTempoAndLength ==
  pc # "raised" =>
    /\ NumLt(Whole(0), metadata.tempo)
    /\ NumLt(Whole(0), metadata.default_note_length)

\* C6: every event of a piano roll that is returned has end >= start.
C6_EndNotBeforeStart ==
  pc = "returned" =>
    \A i \in 1..Len(piano_roll) : NumLe(piano_roll[i][1], piano_roll[i][2])

\* C7: a note with an explicit accidental resolves to base + octave shift +
\* k for k raise marks, - k for k lower marks and + 0 for a natural, under
\* every key and whatever was stored for its spelling.
C7_ExplicitAccidental ==
  (call.fn = "get_midi_pitch" /\ call.accidental # None /\ call.raised = "")
    => call.midi_pitch = Unshifted(call.pitch, call.octave)
                           + MarkOffset(call.accidental)

\* C7 witness: ^^C resolved to 62 under key -6 (which lowers C) with -1
\* stored for C.
C7_Witness ==
  /\ call.fn = "get_midi_pitch"
  /\ call.accidental = <<"^","^">> /\ call.pitch = "C" /\ call.octave = <<>>
  /\ call.before.key = -6
  /\ <<"C">> \in DOMAIN call.before.accidentals
  /\ call.before.accidentals[<<"C">>] = -1
  /\ call.midi_pitch = 62

\* C8: when the piece has no Q line, the compilation that also read "Q: 120"
\* at a point of zero elapsed beats has the same note start times.
C8_SameStartTimes ==
  ( /\ twin.forked
    /\ twin.qlines = 0
    /\ pc \in {"lines", "returned"}
    /\ raised = "" /\ twin.st.raised = "" )
  => /\ Len(twin.st.piano_roll) = Len(piano_roll)
     /\ \A i \in 1..Len(piano_roll) :
          NumEq(twin.st.piano_roll[i][1], piano_roll[i][1])

\* An item that is one rest with an integer duration, such as z4.
LoneRest(item) == item # <<>> /\ Head(item) = "z" /\ IsDigits(Tail(item))

\* C9: a rest standing alone appends no event, leaves the metadata and
\* seconds_elapsed unchanged, and advances beats_elapsed by its written
\* duration times default_note_length.
C9_RestAdvances ==
  [][(pc = "items" /\ LoneRest(Head(pending))) =>
        /\ pc' \in {"items", "lines"}
        /\ piano_roll' = piano_roll
        /\ metadata' = metadata
        /\ seconds_elapsed' = seconds_elapsed
        /\ NumEq(beats_elapsed',
                 NumAdd(beats_elapsed,
                        NumMul(Whole(ParseInt(Tail(Head(pending)))),
                               metadata.default_note_length)))]_vars

\* C9 witness: "z4" alone was compiled under the initial metadata: no event,
\* and one beat (4 * 1/4) elapsed.
C9_Witness ==
  /\ pc = "lines"
  /\ nread = 1
  /\ piano_roll = <<>>
  /\ metadata = NewMetadata
  /\ beats_elapsed = Whole(1)

\* Items holding text that is part of no valid note token: CH4 and [CH4E].
JunkItems == {LineCH4, LineChordCH4E}

\* C10: an item with text that is not part of a valid note token ends the
\* compilation with an exception; no event of it is emitted.
C10_BadTokenAborts ==
  [][(pc = "items" /\ Head(pending) \in JunkItems) =>
        (pc' = "raised" /\ piano_roll' = piano_roll)]_vars

\* The last call returned p/q times the default_note_length it was given.
ScaledBy(p, q) ==
  NumEq(call.value, NumMul(Frac(p, q), call.before.default_note_length))

\* C11: parse_abc_note reads the written duration "/" as 1/2, "/n" as 1/n,
\* "n/" as n/2, an absent one as 1, "n" as n and "n/m" as n/m (n, m
\* positive), and returns it multiplied by the default_note_length of the
\* metadata it was called with.
C11_WrittenDuration ==
  (call.fn = "parse_abc_note" /\ call.note \in DurationNotes) =>
    /\ call.raised = ""
    /\ call.note = <<"C">> => ScaledBy(1, 1)
    /\ call.note = <<"C","/">> => ScaledBy(1, 2)
    /\ \A n \in WrittenNumbers, m \in WrittenNumbers :
         /\ call.note = <<"C">> \o n[1] => ScaledBy(n[2], 1)
         /\ call.note = <<"C","/">> \o n[1] => ScaledBy(1, n[2])
         /\ call.note = <<"C">> \o n[1] \o <<"/">> => ScaledBy(n[2], 2)
         /\ call.note = <<"C">> \o n[1] \o <<"/">> \o m[1]
              => ScaledBy(n[2], m[2])

\* C11 witness: "C3/" parsed under default_note_length 1/3 has value 1/2.
C11_Witness ==
  /\ call.fn = "parse_abc_note"
  /\ call.note = <<"C","3","/">>
  /\ call.before.default_note_length = Frac(1, 3)
  /\ call.raised = ""
  /\ call.value = Frac(1, 2)

\* C12: a Q line whose text matches (unit=)?bpm with bpm positive installs
\* tempo = 60 / bpm / unit as an exact rational ("Q:60" gives exactly 4, the
\* unit being 1/4), and a Q line with bpm = 0 fails as a malformed tempo,
\* with ValueError.
C12_ExactTempo ==
  [][/\ ReadLine(LineTempo60) =>
          (raised' = "" /\ metadata'.tempo = Frac(60 * 4, 60))
     /\ ReadLine(LineTempo0) => raised' = "ValueError"]_vars

\* The index in the history of the last K line read, 0 when there is none.
LastKey == IF KeysRead = {} THEN 0 ELSE Latest(KeysRead)

\* The non-rest notes of the given spelling that carried an explicit
\* accidental since the last K line.
MarkedSince(sp) ==
  {j \in (LastKey + 1)..Len(log) :
     /\ log[j].kind = "note"
     /\ log[j].pitch # "z"
     /\ log[j].accidental # None
     /\ <<log[j].pitch>> \o log[j].octave = sp}

\* C13: every key of the accidentals table is the spelling of a non-rest
\* note that carried an explicit accidental since the last K line (or since
\* the start), its value is the offset of the latest such accidental, and
\* right after a K line the table is empty.
C13_AccidentalTable ==
  /\ \A sp \in DOMAIN metadata.accidentals :
       /\ MarkedSince(sp) # {}
       /\ metadata.accidentals[sp]
            = MarkOffset(log[Latest(MarkedSince(sp))].accidental)
  /\ (LastKey # 0 /\ LastKey = Len(log)) => metadata.accidentals = <<>>

\* C13 witness: after "K:F#" and "_C,, C,, C," the table holds -1 for C,,
\* and nothing else.
C13_Witness ==
  /\ pc = "lines"
  /\ Len(log) = 4
  /\ log[1].kind = "K" /\ log[1].name = <<"F","#">>
  /\ log[2].accidental = <<"_">>
  /\ DOMAIN metadata.accidentals = {<<"C",",",",">>}
  /\ metadata.accidentals[<<"C",",",",">>] = -1

\* The 15 canonical key names and their degrees.
CanonicalDegree ==
  (<<"C","b">> :> -7) @@ (<<"G","b">> :> -6) @@ (<<"D","b">> :> -5)
    @@ (<<"A","b">> :> -4) @@ (<<"E","b">> :> -3) @@ (<<"B","b">> :> -2)
    @@ (<<"F">> :> -1) @@ (<<"C">> :> 0) @@ (<<"G">> :> 1) @@ (<<"D">> :> 2)
    @@ (<<"A">> :> 3) @@ (<<"E">> :> 4) @@ (<<"B">> :> 5)
    @@ (<<"F","#">> :> 6) @@ (<<"C","#">> :> 7)

\* C14: the key is an integer in -7..7 in every state; a K text that is one
\* of the 15 canonical names installs its degree, and any other text fails
\* with KeyError and leaves the key and the accidentals table as they were.
C14_KeyDegree ==
  /\ metadata.key \in -7..7
  /\ call.fn = "parse_meta_key" =>
       IF call.note \in DOMAIN CanonicalDegree
       THEN call.raised = "" /\ metadata.key = CanonicalDegree[call.note]
       ELSE /\ call.raised = "KeyError"
            /\ metadata.key = call.before.key
            /\ metadata.accidentals = call.before.accidentals

\* C14 witness: "Cb" was installed over key 7, giving -7.
C14_Witness ==
  /\ call.fn = "parse_meta_key"
  /\ call.note = <<"C","b">>
  /\ call.before.key = 7
  /\ call.raised = ""
  /\ metadata.key = -7

\* The line with everything from its first "%" on removed.
Uncommented(line) ==
  IF IndexOf(line, "%") > 0 THEN Take(line, IndexOf(line, "%") - 1) ELSE line

\* Each piece of SpecComment is compiled twice: as written, and with the
\* comment of every line removed beforehand.
SpecComment ==
  InitTwin
    /\ [][\/ \E line \in CommentLines : ReadAs(line, Uncommented(line))
          \/ ProcessItem
          \/ Return]_vars

\* C15: a line is interpreted as if everything from "%" to its end were
\* absent, also when nothing follows the "%": after every whole line the
\* compilation is in the state of the compilation of the lines without
\* their comments, and the comment raises no error.
C15_CommentRemoved ==
  (twin.on /\ pc \in {"lines", "returned", "raised"}) =>
    /\ twin.st.raised = "" => raised = ""
    /\ twin.st = Cur

\* The line with every space doubled.
RECURSIVE Doubled(_)
Doubled(line) ==
  IF line = <<>> THEN <<>>
  ELSE IF Head(line) = " " THEN <<" ", " ">> \o Doubled(Tail(line))
  ELSE <<Head(line)>> \o Doubled(Tail(line))

\* Each piece of SpecSpace is compiled twice: as written, with one space
\* between tokens, and with two.
SpecSpace ==
  InitTwin
    /\ [][\/ \E line \in SpaceLines : ReadAs(line, Doubled(line))
          \/ ProcessItem
          \/ Return]_vars

\* C16: two pieces that differ only in the number of spaces between the
\* tokens of their note lines give the same piano roll and the same final
\* state, and the wider one raises no error.
C16_WhitespaceOnly ==
  (twin.on /\ pc \in {"lines", "returned"}) =>
    /\ twin.st.raised = ""
    /\ twin.st.piano_roll = piano_roll
    /\ twin.st.metadata = metadata
    /\ twin.st.seconds_elapsed = seconds_elapsed
    /\ twin.st.beats_elapsed = beats_elapsed

\* C17: a successful Q line ("Q:60", which installs 4 seconds per whole
\* note) adds old tempo * beats_elapsed to seconds_elapsed, sets
\* beats_elapsed to 0, installs the new tempo and leaves the events alone;
\* hence the next chord starts at the time it would have started at without
\* the Q line.
C17_TempoFlush ==
  [][(ReadLine(LineTempo60) /\ raised' = "") =>
        /\ NumEq(seconds_elapsed',
                 NumAdd(seconds_elapsed,
                        NumMul(metadata.tempo, beats_elapsed)))
        /\ IsZero(beats_elapsed')
        /\ NumEq(metadata'.tempo, Whole(4))
        /\ piano_roll' = piano_roll
        /\ NumEq(NumAdd(seconds_elapsed',
                        NumMul(metadata'.tempo, beats_elapsed')),
                 NumAdd(seconds_elapsed,
                        NumMul(metadata.tempo, beats_elapsed)))]_vars

\* The L lines of the pieces with the values they are written with.
LengthValues ==
  { <<LineLength1, Whole(1)>>, <<LineLength0, Whole(0)>>,
    <<LineLengthNeg, Frac(-1, 4)>> }

\* C18: an L line replaces default_note_length with the value written,
\* whatever it was before, and changes nothing else: tempo, key,
\* accidentals, seconds_elapsed, beats_elapsed and the events already
\* appended stay as they are.
C18_LengthReplaced ==
  [][\A l \in LengthValues :
       (ReadLine(l[1]) /\ raised' = "") =>
         /\ metadata' = [metadata EXCEPT !.default_note_length = l[2]]
         /\ piano_roll' = piano_roll
         /\ seconds_elapsed' = seconds_elapsed
         /\ beats_elapsed' = beats_elapsed
         /\ pc' = "lines"]_vars

\* C18 witness: "B", "L:1", "B": the first B keeps its quarter length (one
\* half second) and the second B lasts a whole note (two seconds).
C18_Witness ==
  /\ pc = "lines"
  /\ nread = 3
  /\ metadata.default_note_length = Whole(1)
  /\ Len(piano_roll) = 2
  /\ piano_roll[1] = <<Whole(0), Frac(1, 2), 71, 80>>
  /\ piano_roll[2] = <<Frac(1, 2), Frac(5, 2), 71, 80>>

\* C19: in a piano roll that is returned, the start times are
\* non-decreasing in the order of appending.
C19_Chronological ==
  pc = "returned" =>
    \A i \in 1..Len(piano_roll), j \in 1..Len(piano_roll) :
      i < j => NumLe(piano_roll[i][1], piano_roll[j][1])

====
